---- MODULE Spec2Model ----
(***************************************************************************)
(* Credential service (main.py) and pepper provisioning script             *)
(* (generate_pepper.py).                                                   *)
(*                                                                         *)
(* Strings are sequences of one-character strings, so "" is << >> and      *)
(* a + b is a \o b.  An Optional[str] is << >> for None and <<s>> for the  *)
(* string s.  An encoded Argon2 hash string is the record of its           *)
(* "$"-separated segments; the digest is symbolic (injective in the        *)
(* hashed value, the salt and the cost parameters).                        *)
(***************************************************************************)
EXTENDS Integers, Sequences, FiniteSets, TLC

\* ------------------------------------------------------------------ bounds
NumProcs == 2      \* concurrent request handlers

\* ------------------------------------------------------- program constants
MIN_PASSWORD == 7      \* register: len(password) <= 7 is rejected
TIME_COST == 3
MEMORY_COST == 64000
PARALLELISM == 4
HASH_LEN == 32
ARGON2_VERSION == "19"      \* the version argon2 writes into the hash string

Procs == 1..NumProcs
Usernames == {"alice", "bob"}
Salts == {"s1", "s2"}      \* outcomes of the random salt

RECURSIVE Rep(_, _)
Rep(c, n) == IF n = 0 THEN << >> ELSE <<c>> \o Rep(c, n - 1)

\* request bodies: passwords around the length threshold
Passwords == {Rep("a", MIN_PASSWORD), Rep("a", MIN_PASSWORD + 1),
              Rep("b", MIN_PASSWORD + 1)}

\* values APP_PEPPER may have in the process environment / the .env file
PepperValues == {<< >>, <<"k">>}
OptPepper == {<< >>} \cup {<<v>> : v \in PepperValues}

VARIABLES
    environ,        \* os.environ["APP_PEPPER"]: Optional[str]
    phase,          \* "import", "fatal", "loaded", "serving"
    PEPPER,         \* module global
    schema,         \* the users table exists
    users,          \* rows of table users
    pc,             \* per handler: "idle", "create_user", "verify", "done"
    op,             \* per handler: "register" or "login"
    user,           \* per handler: the request body
    password_hash,  \* per handler: local of register
    stored_hash,    \* per handler: local of login
    response,       \* per handler: outcome sent to the caller
    registered,     \* per username: the Registered responses sent, in order
    envFile,        \* the .env file: Optional[str]
    pcE,            \* generate_pepper.py: "start", "read", "open", "write", "done", "failed"
    pepper,         \* create_env_file argument
    existing_content,   \* create_env_file local
    lines           \* create_env_file local

svcVars == <<environ, phase, PEPPER, schema, users, pc, op, user,
             password_hash, stored_hash, response, registered>>
envVars == <<envFile, pcE, pepper, existing_content, lines>>
vars == <<svcVars, envVars>>

\* ------------------------------------------------------------ Argon2 hasher
NoDigest == [value |-> << >>, salt |-> "", t |-> 0, m |-> 0, p |-> 0, len |-> 0]

Digest(value, salt, t, m, p) ==
    [value |-> value, salt |-> salt, t |-> t, m |-> m, p |-> p, len |-> HASH_LEN]

\* "" : the empty string
EmptyHashString ==
    [type |-> "", version |-> "", m |-> 0, t |-> 0, p |-> 0, salt |-> "",
     digest |-> NoDigest]

\* PasswordHasher.hash with a fresh random salt
ph_hash(value, salt) ==
    [type |-> "argon2id", version |-> ARGON2_VERSION, m |-> MEMORY_COST,
     t |-> TIME_COST, p |-> PARALLELISM, salt |-> salt,
     digest |-> Digest(value, salt, TIME_COST, MEMORY_COST, PARALLELISM)]

KnownTypes == {"argon2id", "argon2i", "argon2d"}

Decodable(h) ==
    /\ h.type \in KnownTypes
    /\ h.version = ARGON2_VERSION
    /\ h.salt # ""
    /\ h.digest.len > 0

\* PasswordHasher.verify: "ok", or the exception it raises
ph_verify(h, value) ==
    IF ~Decodable(h) THEN "InvalidHashError"
    ELSE IF h.digest = Digest(value, h.salt, h.t, h.m, h.p) THEN "ok"
    ELSE "VerifyMismatchError"

hash_password(plain_password, salt) ==
    ph_hash(plain_password \o PEPPER, salt)

\* fault: the pepper is left out of the value verified
verify_password_unpeppered(plain_password, hash) ==
    LET r == ph_verify(hash, plain_password) IN
    IF r = "ok" THEN "True"
    ELSE IF r = "VerifyMismatchError" THEN "False"
    ELSE r

\* "True", "False", or the exception that escapes
verify_password(plain_password, hash) ==
    LET r == ph_verify(hash, plain_password \o PEPPER) IN
    IF r = "ok" THEN "True"
    ELSE IF r = "VerifyMismatchError" THEN "False"
    ELSE r

\* ---------------------------------------------------------------- database
RowsOf(rows, username) == {r \in rows : r.username = username}

\* fault: the WHERE clause is dropped
SelectedAnyUser(rows, username) == rows

\* SELECT password_hash FROM users WHERE username = ?  ; fetchone
Selected(rows, username) == RowsOf(rows, username)

get_user_hash(rows, username) ==
    IF Selected(rows, username) = {} THEN << >>
    ELSE LET r == CHOOSE x \in Selected(rows, username) :
                      \A y \in Selected(rows, username) : x.id <= y.id
         IN <<r.password_hash>>

\* fault: the column is declared without UNIQUE
NoUniqueIndex(rows, username) == FALSE

\* username TEXT UNIQUE
UniqueViolation(rows, username) == RowsOf(rows, username) # {}

\* id INTEGER PRIMARY KEY AUTOINCREMENT
NextId(rows) ==
    IF rows = {} THEN 1
    ELSE 1 + (CHOOSE i \in {r.id : r \in rows} : \A r \in rows : r.id <= i)

\* fault: REPLACE INTO on a fixed key instead of INSERT
InsertedOverFirst(rows, username, hash) ==
    {r \in rows : r.id # 1}
        \cup {[id |-> 1, username |-> username, password_hash |-> hash]}

Inserted(rows, username, hash) ==
    rows \cup {[id |-> NextId(rows), username |-> username, password_hash |-> hash]}

\* ------------------------------------------------------------------ startup
\* load_dotenv(): a variable already in the environment is not overridden
load_dotenv(env, file) == IF env # << >> THEN env ELSE file

\* os.getenv("APP_PEPPER", "")
getenv(env) == IF env = << >> THEN << >> ELSE env[1]

\* fault: the check of lines 19-20 is missing
PepperNeverMissing(value) == FALSE

\* if not PEPPER
PepperMissing(value) == value = << >>

NoUser == [username |-> "", password |-> << >>]

\* the service process before main.py is imported, on a fresh database
InitService ==
    /\ phase = "import"
    /\ PEPPER = << >>
    /\ schema = FALSE
    /\ users = {}
    /\ pc = [p \in Procs |-> "idle"]
    /\ op = [p \in Procs |-> "none"]
    /\ user = [p \in Procs |-> NoUser]
    /\ password_hash = [p \in Procs |-> EmptyHashString]
    /\ stored_hash = [p \in Procs |-> << >>]
    /\ response = [p \in Procs |-> "none"]
    /\ registered = [u \in Usernames |-> << >>]

\* generate_pepper.py not run
InitScript ==
    /\ envFile = << >>
    /\ pcE = "start"
    /\ pepper = << >>
    /\ existing_content = << >>
    /\ lines = << >>

Init ==
    /\ environ \in OptPepper
    /\ InitService
    /\ InitScript

reqVars == <<pc, op, user, password_hash, stored_hash, response>>

\* main.py module body, lines 17-20
load_pepper ==
    /\ phase = "import"
    /\ \E file \in OptPepper : environ' = load_dotenv(environ, file)
    /\ PEPPER' = getenv(environ')
    /\ phase' = IF PepperMissing(PEPPER') THEN "fatal" ELSE "loaded"
    /\ UNCHANGED <<schema, users, registered>>
    /\ UNCHANGED reqVars
    /\ UNCHANGED envVars

\* on_startup -> init_db
on_startup ==
    /\ phase = "loaded"
    /\ schema' = TRUE
    /\ phase' = "serving"
    /\ UNCHANGED <<environ, PEPPER, users, registered>>
    /\ UNCHANGED reqVars
    /\ UNCHANGED envVars

\* ----------------------------------------------------------------- register
\* fault: < written for <=
PasswordTooShortStrict(password) == Len(password) < MIN_PASSWORD

PasswordTooShort(password) == Len(password) <= MIN_PASSWORD

\* register, lines 144-151: validation, then hash_password
register_begin(p, username, password) ==
    /\ phase = "serving"
    /\ pc[p] = "idle"
    /\ op' = [op EXCEPT ![p] = "register"]
    /\ user' = [user EXCEPT ![p] = [username |-> username, password |-> password]]
    /\ stored_hash' = [stored_hash EXCEPT ![p] = << >>]
    /\ IF PasswordTooShort(password)
       THEN /\ response' = [response EXCEPT ![p] = "InvalidInput"]
            /\ pc' = [pc EXCEPT ![p] = "done"]
            /\ password_hash' = [password_hash EXCEPT ![p] = EmptyHashString]
       ELSE /\ \E salt \in Salts :
                 password_hash' = [password_hash EXCEPT
                                     ![p] = hash_password(password, salt)]
            /\ pc' = [pc EXCEPT ![p] = "create_user"]
            /\ response' = [response EXCEPT ![p] = "none"]
    /\ UNCHANGED <<environ, phase, PEPPER, schema, users, registered>>
    /\ UNCHANGED envVars

\* create_user, lines 111-123, and the rest of register, lines 153-161.
\* INSERT and COMMIT are one SQLite transaction: the UNIQUE index is checked
\* and the row written under the database write lock.
create_user(p) ==
    /\ pc[p] = "create_user"
    /\ schema
    /\ IF UniqueViolation(users, user[p].username)
       THEN /\ response' = [response EXCEPT ![p] = "DuplicateUser"]
            /\ UNCHANGED <<users, registered>>
       ELSE /\ users' = Inserted(users, user[p].username, password_hash[p])
            /\ response' = [response EXCEPT ![p] = "Registered"]
            /\ registered' = [registered EXCEPT ![user[p].username] =
                                Append(@, [password |-> user[p].password,
                                           password_hash |-> password_hash[p]])]
    /\ pc' = [pc EXCEPT ![p] = "done"]
    /\ password_hash' = [password_hash EXCEPT ![p] = EmptyHashString]
    /\ UNCHANGED <<environ, phase, PEPPER, schema, op, user, stored_hash>>
    /\ UNCHANGED envVars

\* -------------------------------------------------------------------- login
\* if not stored_hash
NotFound(opt) == opt = << >> \/ opt[1] = EmptyHashString

\* login, lines 165-171
login_begin(p, username, password) ==
    /\ phase = "serving"
    /\ pc[p] = "idle"
    /\ schema
    /\ op' = [op EXCEPT ![p] = "login"]
    /\ user' = [user EXCEPT ![p] = [username |-> username, password |-> password]]
    /\ password_hash' = [password_hash EXCEPT ![p] = EmptyHashString]
    /\ stored_hash' = [stored_hash EXCEPT ![p] = get_user_hash(users, username)]
    /\ IF NotFound(stored_hash'[p])
       THEN /\ response' = [response EXCEPT ![p] = "UserNotFound"]
            /\ pc' = [pc EXCEPT ![p] = "done"]
       ELSE /\ response' = [response EXCEPT ![p] = "none"]
            /\ pc' = [pc EXCEPT ![p] = "verify"]
    /\ UNCHANGED <<environ, phase, PEPPER, schema, users, registered>>
    /\ UNCHANGED envVars

\* login, lines 173-179
login_verify(p) ==
    /\ pc[p] = "verify"
    /\ LET ok == verify_password(user[p].password, stored_hash[p][1]) IN
       response' = [response EXCEPT ![p] =
                      IF ok = "True" THEN "Verified"
                      ELSE IF ok = "False" THEN "InvalidCredentials"
                      ELSE "InternalError"]
    /\ pc' = [pc EXCEPT ![p] = "done"]
    /\ stored_hash' = [stored_hash EXCEPT ![p] = << >>]
    /\ UNCHANGED <<environ, phase, PEPPER, schema, users, registered,
                   op, user, password_hash>>
    /\ UNCHANGED envVars

\* the response has been sent; the handler takes the next request
finish(p) ==
    /\ pc[p] = "done"
    /\ pc' = [pc EXCEPT ![p] = "idle"]
    /\ op' = [op EXCEPT ![p] = "none"]
    /\ user' = [user EXCEPT ![p] = NoUser]
    /\ password_hash' = [password_hash EXCEPT ![p] = EmptyHashString]
    /\ stored_hash' = [stored_hash EXCEPT ![p] = << >>]
    /\ response' = [response EXCEPT ![p] = "none"]
    /\ UNCHANGED <<environ, phase, PEPPER, schema, users, registered>>
    /\ UNCHANGED envVars

Next ==
    \/ load_pepper
    \/ on_startup
    \/ \E p \in Procs, u \in Usernames, pw \in Passwords : register_begin(p, u, pw)
    \/ \E p \in Procs : create_user(p)
    \/ \E p \in Procs, u \in Usernames, pw \in Passwords : login_begin(p, u, pw)
    \/ \E p \in Procs : login_verify(p)
    \/ \E p \in Procs : finish(p)

Spec == Init /\ [][Next]_vars

\* ------------------------------------------------------- generate_pepper.py
\* Characters of the .env file.  KEY stands for the eleven characters
\* "APP_PEPPER=" taken as one symbol.
NL == "\n"
SP == " "
KEY == "APP_PEPPER="
Alphabet == {NL, SP, KEY, "x"}

MaxFileLen == 4     \* longest .env content the script starts from

RECURSIVE StringsUpTo(_)
StringsUpTo(n) ==
    IF n = 0 THEN {<< >>}
    ELSE LET shorter == StringsUpTo(n - 1) IN
         shorter \cup {Append(s, c) : s \in {t \in shorter : Len(t) = n - 1},
                                      c \in Alphabet}

\* secrets.token_urlsafe: URL-safe characters only
Peppers == {<<"p">>, <<"q">>}

generate_pepper == Peppers

IsSpace(c) == c \in {NL, SP}

RECURSIVE lstrip(_)
lstrip(s) == IF s # << >> /\ IsSpace(Head(s)) THEN lstrip(Tail(s)) ELSE s

RECURSIVE rstrip(_)
rstrip(s) ==
    IF s # << >> /\ IsSpace(s[Len(s)]) THEN rstrip(SubSeq(s, 1, Len(s) - 1)) ELSE s

\* str.strip()
strip(s) == rstrip(lstrip(s))

\* str.split("\n")
RECURSIVE split(_)
split(s) ==
    IF \A i \in 1..Len(s) : s[i] # NL THEN <<s>>
    ELSE LET i == CHOOSE k \in 1..Len(s) :
                      s[k] = NL /\ \A j \in 1..(k - 1) : s[j] # NL
         IN <<SubSeq(s, 1, i - 1)>> \o split(SubSeq(s, i + 1, Len(s)))

\* "\n".join(ls)
RECURSIVE join(_)
join(ls) ==
    IF ls = << >> THEN << >>
    ELSE IF Len(ls) = 1 THEN ls[1]
    ELSE ls[1] \o <<NL>> \o join(Tail(ls))

\* line.startswith("APP_PEPPER=")
startswith(line) == line # << >> /\ line[1] = KEY

RECURSIVE Filter(_)
Filter(ls) ==
    IF ls = << >> THEN << >>
    ELSE IF startswith(ls[1]) THEN Filter(Tail(ls))
    ELSE <<ls[1]>> \o Filter(Tail(ls))

\* fault: the old entry is kept
KeepPepper(ls) == ls

\* create_env_file, line 50
RemovePepper(ls) == Filter(ls)

\* create_env_file, line 47
ContentLines(content) == IF strip(content) # << >> THEN split(strip(content)) ELSE << >>

\* create_env_file, lines 47-53
NewLines(content, s) == Append(RemovePepper(ContentLines(content)), <<KEY>> \o s)

\* create_env_file, line 57
Written(ls) == join(ls) \o <<NL>>

Prefixes(s) == {SubSeq(s, 1, n) : n \in 0..Len(s)}

InitEnv ==
    /\ environ = << >>
    /\ InitService
    /\ envFile \in {<< >>} \cup {<<c>> : c \in StringsUpTo(MaxFileLen)}
    /\ pcE = "start"
    /\ pepper = << >>
    /\ existing_content = << >>
    /\ lines = << >>

\* main, lines 106-119: generate the pepper and call create_env_file
script_main ==
    /\ pcE \in {"start", "done", "failed"}
    /\ pepper' \in generate_pepper
    /\ pcE' = "read"
    /\ existing_content' = << >>
    /\ lines' = << >>
    /\ UNCHANGED envFile
    /\ UNCHANGED svcVars

\* create_env_file, lines 38-53
env_read ==
    /\ pcE = "read"
    /\ existing_content' = IF envFile # << >> THEN envFile[1] ELSE << >>
    /\ lines' = NewLines(existing_content', pepper)
    /\ pcE' = "open"
    /\ UNCHANGED <<envFile, pepper>>
    /\ UNCHANGED svcVars

\* create_env_file, lines 43-44 raising (unreadable file), lines 61-63
env_read_error ==
    /\ pcE = "read"
    /\ envFile # << >>
    /\ pcE' = "failed"
    /\ UNCHANGED <<envFile, pepper, existing_content, lines>>
    /\ UNCHANGED svcVars

\* create_env_file, line 56: open(env_file, "w") creates or truncates the file
env_open ==
    /\ pcE = "open"
    /\ envFile' = << << >> >>
    /\ pcE' = "write"
    /\ UNCHANGED <<pepper, existing_content, lines>>
    /\ UNCHANGED svcVars

\* create_env_file, line 56 raising (no permission), lines 61-63
env_open_error ==
    /\ pcE = "open"
    /\ pcE' = "failed"
    /\ UNCHANGED <<envFile, pepper, existing_content, lines>>
    /\ UNCHANGED svcVars

\* create_env_file, lines 57-59
env_write ==
    /\ pcE = "write"
    /\ envFile' = <<Written(lines)>>
    /\ pcE' = "done"
    /\ UNCHANGED <<pepper, existing_content, lines>>
    /\ UNCHANGED svcVars

\* create_env_file, line 57 raising or the process killed after part of the
\* data reached the file, lines 61-63
env_write_error ==
    /\ pcE = "write"
    /\ \E part \in Prefixes(Written(lines)) \ {Written(lines)} : envFile' = <<part>>
    /\ pcE' = "failed"
    /\ UNCHANGED <<pepper, existing_content, lines>>
    /\ UNCHANGED svcVars

NextEnv ==
    \/ script_main
    \/ env_read
    \/ env_read_error
    \/ env_open
    \/ env_open_error
    \/ env_write
    \/ env_write_error

SpecEnv == InitEnv /\ [][NextEnv]_vars

\* --------------------------------------- a database file that already exists
\* users.db is opened as found (CREATE TABLE IF NOT EXISTS): rows written to it
\* before this process started are read back by login
UnknownTypeHash ==
    [type |-> "2b", version |-> "", m |-> 0, t |-> 0, p |-> 0, salt |-> "s1",
     digest |-> Digest(<<"a">>, "s1", 0, 0, 0)]

TruncatedHash ==
    [type |-> "argon2id", version |-> ARGON2_VERSION, m |-> MEMORY_COST,
     t |-> TIME_COST, p |-> PARALLELISM, salt |-> "", digest |-> NoDigest]

StoredHashes ==
    {EmptyHashString, UnknownTypeHash, TruncatedHash,
     ph_hash(Rep("a", MIN_PASSWORD + 1) \o <<"k">>, "s1")}

InitStored ==
    /\ environ \in OptPepper
    /\ InitScript
    /\ phase = "import"
    /\ PEPPER = << >>
    /\ schema = TRUE
    /\ \E h \in StoredHashes :
           users = {[id |-> 1, username |-> "alice", password_hash |-> h]}
    /\ pc = [p \in Procs |-> "idle"]
    /\ op = [p \in Procs |-> "none"]
    /\ user = [p \in Procs |-> NoUser]
    /\ password_hash = [p \in Procs |-> EmptyHashString]
    /\ stored_hash = [p \in Procs |-> << >>]
    /\ response = [p \in Procs |-> "none"]
    /\ registered = [u \in Usernames |-> << >>]

SpecStored == InitStored /\ [][Next]_vars

\* ===================================================================== claims
Valid(password) == Len(password) > MIN_PASSWORD

HashesOf(rows, username) == {r.password_hash : r \in RowsOf(rows, username)}

\* C1: a Register for a username that already got Registered ends in
\* DuplicateUser, and the username's stored hash is still the one the first
\* registration stored.
DuplicateRejected ==
    [][\A p \in Procs :
          (/\ pc[p] = "create_user"
           /\ pc'[p] = "done"
           /\ registered[user[p].username] # << >>)
          => /\ response'[p] = "DuplicateUser"
             /\ HashesOf(users', user[p].username)
                    = {registered[user[p].username][1].password_hash}]_vars

DuplicateRejectedWitness ==
    \E p \in Procs :
        /\ pc[p] = "done"
        /\ op[p] = "register"
        /\ response[p] = "DuplicateUser"
        /\ registered[user[p].username] # << >>
        /\ registered[user[p].username][1].password # user[p].password
        /\ Valid(user[p].password)

\* C2: of the Register calls racing for one username exactly one is answered
\* Registered and the others DuplicateUser, and no username ever has two rows.
DoneRegister(p, u) ==
    /\ pc[p] = "done"
    /\ op[p] = "register"
    /\ user[p].username = u
    /\ Valid(user[p].password)

OneWinner ==
    \A u \in Usernames :
        /\ Cardinality(RowsOf(users, u)) <= 1
        /\ Len(registered[u]) <= 1
        /\ Cardinality({p \in Procs : DoneRegister(p, u) /\ response[p] = "Registered"}) <= 1
        /\ \A p \in Procs :
               DoneRegister(p, u)
               => /\ response[p] \in {"Registered", "DuplicateUser"}
                  /\ Len(registered[u]) = 1

OneWinnerWitness ==
    \E p, q \in Procs :
        /\ p # q
        /\ DoneRegister(p, "alice")
        /\ DoneRegister(q, "alice")
        /\ response[p] = "Registered"
        /\ response[q] = "DuplicateUser"
        /\ user[p].password # user[q].password

\* C3: once a username is registered, every Login for it reaches verification
\* and is answered Verified for the registered password and InvalidCredentials
\* for any other.
LoginDecides ==
    [][\A p \in Procs :
          /\ (/\ pc[p] = "idle"
              /\ pc'[p] # "idle"
              /\ op'[p] = "login"
              /\ registered[user'[p].username] # << >>)
             => pc'[p] = "verify"
          /\ (pc[p] = "verify" /\ pc'[p] = "done")
             => /\ registered[user[p].username] # << >>
                /\ response'[p] =
                       IF user[p].password = registered[user[p].username][1].password
                       THEN "Verified" ELSE "InvalidCredentials"]_vars

LoginDecidesWitness ==
    \E p, q \in Procs :
        /\ pc[p] = "done" /\ op[p] = "login" /\ response[p] = "Verified"
        /\ pc[q] = "done" /\ op[q] = "login" /\ response[q] = "InvalidCredentials"
        /\ user[p].username = user[q].username

ShortPasswordRejected ==
    \A p \in Procs :
        op[p] = "register"
        => /\ pc[p] = "done"
              => (response[p] = "InvalidInput" <=> Len(user[p].password) <= 7)
           /\ Len(user[p].password) <= 7
              => pc[p] = "done" /\ password_hash[p] = EmptyHashString
           /\ (pc[p] = "done" /\ Len(user[p].password) >= 8)
              => /\ response[p] \in {"Registered", "DuplicateUser"}
                 /\ registered[user[p].username] # << >>

ShortPasswordRejectedWitness ==
    \E p, q \in Procs :
        /\ pc[p] = "done" /\ op[p] = "register"
        /\ Len(user[p].password) = 7
        /\ response[p] = "InvalidInput"
        /\ pc[q] = "done" /\ op[q] = "register"
        /\ Len(user[q].password) = 8
        /\ response[q] = "Registered"
        /\ user[q].username = user[p].username

\* C6: a Login that finds a malformed stored hash ends in a failure of its
\* own kind (neither InvalidCredentials nor any other caller error), and a
\* well-formed hash that does not match ends in InvalidCredentials.
MalformedHashIsStorageFailure ==
    \A p \in Procs :
        (pc[p] = "done" /\ op[p] = "login" /\ registered[user[p].username] = << >>)
        => \A h \in HashesOf(users, user[p].username) :
               /\ ~Decodable(h) => response[p] = "InternalError"
               /\ (Decodable(h) /\ ph_verify(h, user[p].password \o PEPPER) # "ok")
                  => response[p] = "InvalidCredentials"

\* C7: with APP_PEPPER absent or empty the process stops at import, before the
\* schema is created and before any request; while requests are handled the
\* pepper is the non-empty value of the environment.
NoPepperNoService ==
    /\ (phase # "import" /\ getenv(environ) = << >>)
       => /\ phase = "fatal"
          /\ ~schema
          /\ \A p \in Procs : pc[p] = "idle" /\ response[p] = "none"
    /\ (\E p \in Procs : pc[p] # "idle")
       => /\ phase = "serving"
          /\ PEPPER # << >>
          /\ PEPPER = getenv(environ)

NoPepperNoServiceWitness ==
    /\ phase = "fatal"
    /\ environ = << << >> >>

\* C10: rows are only ever added, one at a time, by a Register answered
\* Registered, for its own username; every other outcome leaves the table as
\* it was.
StoreOnlyGrows ==
    [][/\ users \subseteq users'
       /\ users' # users
          => \E p \in Procs :
                 /\ pc[p] = "create_user"
                 /\ response'[p] = "Registered"
                 /\ Cardinality(users' \ users) = 1
                 /\ \A r \in users' \ users :
                        /\ r.username = user[p].username
                        /\ r.password_hash = password_hash[p]
       /\ \A p \in Procs :
              (pc'[p] = "done" /\ pc[p] # "done" /\ response'[p] # "Registered")
              => users' = users]_vars

StoreOnlyGrowsWitness ==
    /\ Cardinality(users) = 2
    /\ \E p \in Procs : pc[p] = "done" /\ response[p] = "Registered"
    /\ \E p \in Procs : pc[p] = "done" /\ op[p] = "login"

\* ------------------------------------------------------------- .env claims
FileContent == IF envFile = << >> THEN << >> ELSE envFile[1]

\* the lines of a text: the pieces between newlines, a final newline ending
\* the last line
TextLines(content) ==
    IF content = << >> THEN << >>
    ELSE IF content[Len(content)] = NL
         THEN split(SubSeq(content, 1, Len(content) - 1))
    ELSE split(content)

IsEntry(line) == line # << >> /\ line[1] = KEY

Entries(ls) == {i \in 1..Len(ls) : IsEntry(ls[i])}

Others(ls) == SelectSeq(ls, LAMBDA l : ~IsEntry(l))

AllButLast(ls) == SubSeq(ls, 1, Len(ls) - 1)

\* C8 as amended: after create_env_file succeeds the file has exactly one
\* APP_PEPPER= line, the last one, carrying the new pepper, preceded by the
\* other lines of the previous content taken after stripping the whitespace
\* at both ends of that content.
PersistOneEntry ==
    pcE = "done"
    => LET ls == TextLines(FileContent) IN
       /\ Cardinality(Entries(ls)) = 1
       /\ ls[Len(ls)] = <<KEY>> \o pepper
       /\ AllButLast(ls) = Others(TextLines(strip(existing_content)))

PersistOneEntryWitness ==
    /\ pcE = "done"
    /\ Cardinality(Entries(TextLines(existing_content))) >= 1
    /\ Others(TextLines(strip(existing_content))) # << >>
    /\ TextLines(existing_content)[1] # <<KEY>> \o pepper

\* C8 as claimed: ... preceded by every other line of the previous content.
PersistKeepsEveryLine ==
    pcE = "done"
    => LET ls == TextLines(FileContent) IN
       /\ Cardinality(Entries(ls)) = 1
       /\ ls[Len(ls)] = <<KEY>> \o pepper
       /\ AllButLast(ls) = Others(TextLines(existing_content))

\* C9: from the moment the previous content has been read, the file holds
\* that content or the complete new content, and an entry it had is not lost.
NoCorruptionWindow ==
    pcE \in {"open", "write", "done"}
    => /\ FileContent \in {existing_content, Written(lines)}
       /\ Entries(TextLines(existing_content)) # {}
          => Entries(TextLines(FileContent)) # {}

====
